---- MODULE Spec2Model ----
(***************************************************************************)
(* Generalized Hough Transform face / eye detector                         *)
(* (vision/src/ght_face_eyes.cpp).                                         *)
(*                                                                         *)
(* Every function of the detection core is an operator computed the way    *)
(* the C++ computes it; each function under study also has an activation   *)
(* frame (a record variable) so that its loop can be observed step by step.*)
(* Images and accumulators are flat row-major vectors indexed y*w+x.       *)
(* Refined centroids (float in the code) are exact rationals [n, d]; at the *)
(* values explored here lround() of the float and of the rational agree.   *)
(***************************************************************************)
EXTENDS Integers, Sequences, FiniteSets, TLC

VARIABLES vote,   \* activation of voter()
          topk,   \* activation of topKpicsAvecBary()
          pair,   \* activation of choisirPaireYeux()
          rtb,    \* activation of construireRTableDepuisTemplate()
          det,    \* activation of detectfaceeyes()
          bary    \* activation of barycentreLocalAutourMax()

vars == <<vote, topk, pair, rtb, det, bary>>

Idle == [pc |-> "idle"]

----------------------------------------------------------------------------
(* Bounds of the explored inputs.                                          *)

\* lit pixels of an input image of the vote pass
MaxLit == 2

----------------------------------------------------------------------------
(* utils                                                                   *)

\* largest value of a uint16_t vote counter / gradient magnitude
U16Max == 65535

\* number of orientation bins of an R-table
NbBins == 360

Abs(v) == IF v < 0 THEN -v ELSE v

Max2(a, b) == IF a >= b THEN a ELSE b

clampInt(v, minV, maxV) ==
    IF v < minV THEN minV ELSE IF v > maxV THEN maxV ELSE v

\* std::lround of the rational n/d (d > 0): nearest integer, halves away
\* from zero.
LRound(n, d) ==
    IF n >= 0 THEN (2 * n + d) \div (2 * d)
              ELSE -((2 * (-n) + d) \div (2 * d))

RECURSIVE FloorSqrt(_, _, _)
\* largest r in lo..hi with r*r <= n (bisection; lo*lo <= n < (hi+1)^2)
FloorSqrt(n, lo, hi) ==
    IF lo >= hi THEN lo
    ELSE LET mid == (lo + hi + 1) \div 2
         IN  IF mid * mid <= n THEN FloorSqrt(n, mid, hi)
                               ELSE FloorSqrt(n, lo, mid - 1)

\* (int)std::lround(std::sqrt(n)) for an integer n >= 0
RoundSqrt(n) ==
    LET f == FloorSqrt(n, 0, 2048)
    IN  IF n > f * f + f THEN f + 1 ELSE f

\* tan((k + 1/2) degrees) * 10^6 for k = 0..44: the tangent at which
\* lround(degrees) steps from k to k+1.
TanHalf ==
    <<8727, 26186, 43661, 61163, 78702, 96289, 113936, 131652, 149451,
      167343, 185339, 203452, 221695, 240079, 258618, 277325, 296213,
      315299, 334595, 354119, 373885, 393910, 414214, 434812, 455726,
      476976, 498582, 520567, 542956, 565773, 589045, 612801, 637070,
      661886, 687281, 713293, 739961, 767327, 795436, 824336, 854081,
      884725, 916331, 948965, 982697>>

\* lround(atan(mn/mx) in degrees) for 0 <= mn <= mx, mx > 0: in 0..45
DegOctant(mn, mx) ==
    Cardinality({k \in 1..45 : mn * 1000000 >= TanHalf[k] * mx})

\* lround(atan2(gy, gx) in degrees), in -180..180; atan2(0, 0) = 0
DegAtan2(gy, gx) ==
    LET ax == Abs(gx)
        ay == Abs(gy)
        a  == IF ax = 0 /\ ay = 0 THEN 0
              ELSE IF ay <= ax THEN DegOctant(ay, ax)
              ELSE 90 - DegOctant(ax, ay)
        q  == IF gx >= 0 THEN a ELSE 180 - a
    IN  IF gy >= 0 THEN q ELSE -q

\* binDeg(std::atan2(gy, gx)): the orientation bin in 0..359
binDeg(gy, gx) == DegAtan2(gy, gx) % NbBins

----------------------------------------------------------------------------
(* image struct                                                            *)

\* grayImage::at / AccuImage::at / ChampGradient::m,a : index y*w + x
Idx(w, y, x) == y * w + x

makeGris(w, h, value) ==
    [w |-> w, h |-> h, p |-> [i \in 0..(w * h - 1) |-> value]]

\* the lambda `at` of sobel(): border pixels are clamped to the nearest
\* valid coordinate
AtClamped(img, y, x) ==
    img.p[Idx(img.w, clampInt(y, 0, img.h - 1), clampInt(x, 0, img.w - 1))]

SobelGx(img, y, x) ==
      (-1) * AtClamped(img, y - 1, x - 1) + AtClamped(img, y - 1, x + 1)
    + (-2) * AtClamped(img, y,     x - 1) + 2 * AtClamped(img, y, x + 1)
    + (-1) * AtClamped(img, y + 1, x - 1) + AtClamped(img, y + 1, x + 1)

SobelGy(img, y, x) ==
      (-1) * AtClamped(img, y - 1, x - 1) + (-2) * AtClamped(img, y - 1, x)
    + (-1) * AtClamped(img, y - 1, x + 1)
    + AtClamped(img, y + 1, x - 1) + 2 * AtClamped(img, y + 1, x)
    + AtClamped(img, y + 1, x + 1)

SobelMag(gx, gy) == clampInt(RoundSqrt(gx * gx + gy * gy), 0, U16Max)

\* ChampGradient sobel(const grayImage&)
sobel(img) ==
    LET g == [i \in 0..(img.w * img.h - 1) |->
                <<SobelGx(img, i \div img.w, i % img.w),
                  SobelGy(img, i \div img.w, i % img.w)>>]
    IN  [w   |-> img.w,
         h   |-> img.h,
         mag |-> [i \in 0..(img.w * img.h - 1) |-> SobelMag(g[i][1], g[i][2])],
         ang |-> [i \in 0..(img.w * img.h - 1) |-> binDeg(g[i][2], g[i][1])]]

----------------------------------------------------------------------------
(* accumulator + R-Table                                                   *)

makeAccu(w, h) == [w |-> w, h |-> h, a |-> [i \in 0..(w * h - 1) |-> 0]]

\* an R-table with every bucket empty
EmptyRTable == [b \in 0..(NbBins - 1) |-> <<>>]

\* `if (cell < 65535) cell++;` wrapped to 16 bits without the test
VoteCellWrapping(cell) == (cell + 1) % (U16Max + 1)

\* `if (cell < 65535) cell++;`
VoteCell(cell) == IF cell < U16Max THEN cell + 1 ELSE cell

\* one iteration of `for (const auto& d : vec)` at pixel (y, x)
CastVote(A, y, x, d) ==
    LET cx == x + d[1]
        cy == y + d[2]
    IN  IF cx < 0 \/ cy < 0 \/ cx >= A.w \/ cy >= A.h THEN A
        ELSE [A EXCEPT !.a[Idx(A.w, cy, cx)] = VoteCell(@)]

RECURSIVE CastVotes(_, _, _, _, _)
\* the loop `for (const auto& d : vec)` from its k-th element on
CastVotes(A, y, x, vec, k) ==
    IF k > Len(vec) THEN A
    ELSE CastVotes(CastVote(A, y, x, vec[k]), y, x, vec, k + 1)

\* the gate of voter(): `if (mag < seuilMag) continue;` and
\* `if (vec.empty()) continue;`
PixelVotes(grads, rtable, seuilMag, y, x) ==
    LET i == Idx(grads.w, y, x)
    IN  IF grads.mag[i] < seuilMag THEN <<>> ELSE rtable[grads.ang[i]]

\* the body of voter()'s pixel loop at pixel (y, x)
VoterAtPixel(A, grads, rtable, seuilMag, y, x) ==
    CastVotes(A, y, x, PixelVotes(grads, rtable, seuilMag, y, x), 1)

\* the cells (flat indices of A) that pixel (y, x) votes into, in the order
\* of its bucket: the offsets that pass the bounds test
PixelTargets(A, grads, rtable, seuilMag, y, x) ==
    LET vec == PixelVotes(grads, rtable, seuilMag, y, x)
        inb == SelectSeq([k \in 1..Len(vec) |-> <<x + vec[k][1], y + vec[k][2]>>],
                         LAMBDA c : ~(c[1] < 0 \/ c[2] < 0 \/ c[1] >= A.w \/ c[2] >= A.h))
    IN  [k \in 1..Len(inb) |-> Idx(A.w, inb[k][2], inb[k][1])]

RECURSIVE VoteTargets(_, _, _, _, _, _, _)
\* the cells voted into by the pixels lo..hi (flat indices of img), in the
\* order voter() casts the votes
VoteTargets(A, img, grads, rtable, seuilMag, lo, hi) ==
    IF lo > hi THEN <<>>
    ELSE IF lo = hi
    THEN PixelTargets(A, grads, rtable, seuilMag, lo \div img.w, lo % img.w)
    ELSE VoteTargets(A, img, grads, rtable, seuilMag, lo, (lo + hi) \div 2)
         \o VoteTargets(A, img, grads, rtable, seuilMag, (lo + hi) \div 2 + 1, hi)

RECURSIVE VoteTimes(_, _)
\* a cell after n votes
VoteTimes(cell, n) == IF n = 0 THEN cell ELSE VoteTimes(VoteCell(cell), n - 1)

\* void voter(AccuImage&, const grayImage&, const ChampGradient&,
\*            const RTable&, uint16_t seuilMag): every cell receives its
\* votes one by one
voter(A, img, grads, rtable, seuilMag) ==
    LET t == VoteTargets(A, img, grads, rtable, seuilMag, 0, img.w * img.h - 1)
    IN  [A EXCEPT !.a = [i \in DOMAIN A.a |->
                           VoteTimes(A.a[i], Cardinality({k \in DOMAIN t : t[k] = i}))]]

----------------------------------------------------------------------------
(* Inputs of the vote pass                                                 *)

\* intensity of a lit pixel (the templates draw 0 on 255)
PixHi == 255

VoteW == 3
VoteH == 2

\* images with at most MaxLit lit pixels on a dark ground
LitImages(w, h, maxLit) ==
    { [w |-> w, h |-> h,
       p |-> [i \in 0..(w * h - 1) |-> IF i \in S THEN PixHi ELSE 0]] :
      S \in { T \in SUBSET (0..(w * h - 1)) : Cardinality(T) <= maxLit } }

\* R-tables of the vote pass: buckets of the orientations a lit pixel
\* produces (0, 90, 180) with one or several offsets, some repeated
VoteTables ==
    { [EmptyRTable EXCEPT ![0] = <<<<0, 0>>>>],
      [EmptyRTable EXCEPT ![0] = <<<<1, 0>>, <<1, 0>>>>,
                          ![180] = <<<<-1, 0>>, <<0, 1>>>>],
      [EmptyRTable EXCEPT ![180] = <<<<0, 0>>, <<0, 0>>, <<-5, 0>>>>,
                          ![90] = <<<<0, -1>>>>] }

\* accumulators handed to voter(): fresh, or already near saturation
VoteAccus ==
    { [w |-> VoteW, h |-> VoteH,
       a |-> [i \in 0..(VoteW * VoteH - 1) |-> IF i % 2 = 0 THEN v1 ELSE v2]] :
      v1 \in {0, U16Max - 1, U16Max}, v2 \in {0, U16Max} }

VoteThresholds == {0, 1, 1021}

----------------------------------------------------------------------------
(* voter(), one pixel of its scan per step                                 *)

InitVote ==
    /\ vote \in { [pc |-> "scan", A |-> A, img |-> img, grads |-> sobel(img),
                   rtable |-> rt, seuilMag |-> s, i |-> 0] :
                  A \in VoteAccus, img \in LitImages(VoteW, VoteH, MaxLit),
                  rt \in VoteTables, s \in VoteThresholds }
    /\ topk = Idle /\ pair = Idle /\ rtb = Idle /\ det = Idle /\ bary = Idle

VoterPixel ==
    /\ vote.pc = "scan"
    /\ vote.i < vote.img.w * vote.img.h
    /\ vote' = [vote EXCEPT
                  !.A = VoterAtPixel(vote.A, vote.grads, vote.rtable,
                                     vote.seuilMag,
                                     vote.i \div vote.img.w,
                                     vote.i % vote.img.w),
                  !.i = @ + 1]
    /\ UNCHANGED <<topk, pair, rtb, det, bary>>

VoterReturn ==
    /\ vote.pc = "scan"
    /\ vote.i >= vote.img.w * vote.img.h
    /\ vote' = [vote EXCEPT !.pc = "done"]
    /\ UNCHANGED <<topk, pair, rtb, det, bary>>

NextVote == VoterPixel \/ VoterReturn

SpecVote == InitVote /\ [][NextVote]_vars

----------------------------------------------------------------------------
(* Properties of the vote pass                                             *)

\* number of in-bounds votes the whole pass casts into cell i
HitCount(i) ==
    Cardinality(
      { <<px, k>> \in (0..(vote.img.w * vote.img.h - 1)) \X (1..3) :
          LET vec == PixelVotes(vote.grads, vote.rtable, vote.seuilMag,
                                px \div vote.img.w, px % vote.img.w)
          IN  /\ k <= Len(vec)
              /\ (px % vote.img.w) + vec[k][1] \in 0..(vote.A.w - 1)
              /\ (px \div vote.img.w) + vec[k][2] \in 0..(vote.A.h - 1)
              /\ Idx(vote.A.w, (px \div vote.img.w) + vec[k][2],
                               (px % vote.img.w) + vec[k][1]) = i })

\* C1: during the vote pass every accumulator cell stays in 0..65535 and
\* never decreases; a cell that has reached 65535 stays at 65535 instead of
\* wrapping to a smaller value.
C1_VotesSaturate ==
    [][\A i \in DOMAIN vote.A.a :
          /\ vote'.A.a[i] \in 0..U16Max
          /\ vote'.A.a[i] >= vote.A.a[i]]_vars

\* a finished pass that cast at least two votes into a cell now at 65535
C1_Witness ==
    /\ vote.pc = "done"
    /\ \E i \in DOMAIN vote.A.a : vote.A.a[i] = U16Max /\ HitCount(i) >= 2

\* C9: a pixel whose horizontal and vertical Sobel responses are both zero
\* casts no vote: the step of voter() at such a pixel changes no
\* accumulator cell, whatever the threshold and the R-table.
C9_ZeroGradientCastsNoVote ==
    [][(/\ vote.pc = "scan"
        /\ vote.i < vote.img.w * vote.img.h
        /\ SobelGx(vote.img, vote.i \div vote.img.w, vote.i % vote.img.w) = 0
        /\ SobelGy(vote.img, vote.i \div vote.img.w, vote.i % vote.img.w) = 0)
       => vote'.A = vote.A]_vars

----------------------------------------------------------------------------
(* templates: construireRTableDepuisTemplate(), one template pixel per step *)

\* rt.lut[ang].push_back({cx - x, cy - y}) for a pixel that passes the
\* magnitude gate `if (mag < minMag || mag > maxMag) continue;`
RTablePush(rt, g, w, h, minMag, maxMag, y, x) ==
    LET i == Idx(w, y, x)
    IN  IF g.mag[i] < minMag \/ g.mag[i] > maxMag THEN rt
        ELSE [rt EXCEPT ![g.ang[i]] =
                 Append(@, <<(w \div 2) - x, (h \div 2) - y>>)]

RECURSIVE RTableFrom(_, _, _, _, _, _, _)
\* the pixel loop of construireRTableDepuisTemplate() from flat index i on
RTableFrom(rt, g, w, h, minMag, maxMag, i) ==
    IF i >= w * h THEN rt
    ELSE RTableFrom(RTablePush(rt, g, w, h, minMag, maxMag,
                               i \div w, i % w),
                    g, w, h, minMag, maxMag, i + 1)

\* RTable construireRTableDepuisTemplate(const grayImage& templ,
\*                                       uint16_t minMag, uint16_t maxMag)
construireRTableDepuisTemplate(templ, minMag, maxMag) ==
    RTableFrom(EmptyRTable, sobel(templ), templ.w, templ.h, minMag, maxMag, 0)

TplW == 3
TplH == 3

\* templates: at most MaxLit curve pixels (0) drawn on a white ground (255)
Templates ==
    { [w |-> TplW, h |-> TplH,
       p |-> [i \in 0..(TplW * TplH - 1) |-> PixHi - t.p[i]]] :
      t \in LitImages(TplW, TplH, MaxLit) }

\* magnitude gates <<minMag, maxMag>>: those main() passes (50..220 and
\* 40..220) and wider ones
MagGates == { <<50, 220>>, <<40, 220>>, <<0, U16Max>>, <<1, 1100>>, <<300, 900>> }

InitRTable ==
    /\ rtb \in { [pc |-> "scan", templ |-> t, g |-> sobel(t),
                  minMag |-> gate[1], maxMag |-> gate[2],
                  rt |-> EmptyRTable, i |-> 0] :
                 t \in Templates, gate \in MagGates }
    /\ vote = Idle /\ topk = Idle /\ pair = Idle /\ det = Idle /\ bary = Idle

RTablePixel ==
    /\ rtb.pc = "scan"
    /\ rtb.i < rtb.templ.w * rtb.templ.h
    /\ rtb' = [rtb EXCEPT
                 !.rt = RTablePush(rtb.rt, rtb.g, rtb.templ.w, rtb.templ.h,
                                   rtb.minMag, rtb.maxMag,
                                   rtb.i \div rtb.templ.w,
                                   rtb.i % rtb.templ.w),
                 !.i = @ + 1]
    /\ UNCHANGED <<vote, topk, pair, det, bary>>

RTableReturn ==
    /\ rtb.pc = "scan"
    /\ rtb.i >= rtb.templ.w * rtb.templ.h
    /\ rtb' = [rtb EXCEPT !.pc = "done"]
    /\ UNCHANGED <<vote, topk, pair, det, bary>>

NextRTable == RTablePixel \/ RTableReturn

SpecRTable == InitRTable /\ [][NextRTable]_vars

\* C8: every angle bucket of the R-table built from a template holds at
\* most a configured maximum number of offsets (later qualifying pixels of
\* a full bucket are dropped). The code configures no maximum; the property
\* is stated for a maximum of 4 offsets, fewer than a template has pixels.
C8_BucketsCapped ==
    LET maxOffsets == 4
    IN  \A b \in DOMAIN rtb.rt : Len(rtb.rt[b]) <= maxOffsets

----------------------------------------------------------------------------
(* topKpicsAvecBary(), one sorted candidate per step                       *)

RECURSIVE SumRange(_, _, _)
\* the sum of f[i] for i in lo..hi
SumRange(f, lo, hi) ==
    IF lo > hi THEN 0
    ELSE IF lo = hi THEN f[lo]
    ELSE SumRange(f, lo, (lo + hi) \div 2) + SumRange(f, (lo + hi) \div 2 + 1, hi)

\* the sums `sum`, `sx`, `sy` of the barycenter loops over the clamped
\* window [cx - radius, cx + radius] x [cy - radius, cy + radius]
BarySums(A, cx, cy, radius) ==
    LET x0 == clampInt(cx - radius, 0, A.w - 1)
        x1 == clampInt(cx + radius, 0, A.w - 1)
        y0 == clampInt(cy - radius, 0, A.h - 1)
        y1 == clampInt(cy + radius, 0, A.h - 1)
        row == [y \in y0..y1 |->
                  SumRange([x \in x0..x1 |-> A.a[Idx(A.w, y, x)]], x0, x1)]
        rowx == [y \in y0..y1 |->
                  SumRange([x \in x0..x1 |-> A.a[Idx(A.w, y, x)] * x], x0, x1)]
    IN  [sum |-> SumRange(row, y0, y1),
         sx  |-> SumRange(rowx, y0, y1),
         sy  |-> SumRange([y \in y0..y1 |-> row[y] * y], y0, y1)]

\* the candidates when the `v >= minVal` test is left out
CandidatesAll(A, minVal) ==
    { [x |-> i % A.w, y |-> i \div A.w, v |-> A.a[i]] : i \in DOMAIN A.a }

\* the candidates `cands`: every cell with v >= minVal
Candidates(A, minVal) ==
    { [x |-> i % A.w, y |-> i \div A.w, v |-> A.a[i]] :
        i \in { j \in DOMAIN A.a : A.a[j] >= minVal } }

\* the candidates std::sort may place first among those not yet visited:
\* the comparator orders by v alone, so equal values come in any order
SortHeads(cands) ==
    IF cands = {} THEN {}
    ELSE LET top == CHOOSE c \in cands : \A o \in cands : o.v <= c.v
         IN  { c \in cands : c.v = top.v }

\* `dx*dx + dy*dy < nmsRadius*nmsRadius` in place of `<=`
TooCloseStrict(out, c, nmsRadius) ==
    \E j \in 1..Len(out) :
        (c.x - out[j].x) * (c.x - out[j].x) + (c.y - out[j].y) * (c.y - out[j].y)
            < nmsRadius * nmsRadius

\* the inner loop over `out`: `if (dx*dx + dy*dy <= nmsRadius*nmsRadius)`
TooClose(out, c, nmsRadius) ==
    \E j \in 1..Len(out) :
        (c.x - out[j].x) * (c.x - out[j].x) + (c.y - out[j].y) * (c.y - out[j].y)
            <= nmsRadius * nmsRadius

\* the PicPoint pushed for candidate c: raw position, value and barycenter
\* (the raw position itself when the window sums to zero)
PicPointOf(A, c, baryRadius) ==
    LET s == BarySums(A, c.x, c.y, baryRadius)
    IN  [x |-> c.x, y |-> c.y, v |-> c.v,
         bx |-> IF s.sum > 0 THEN [n |-> s.sx, d |-> s.sum] ELSE [n |-> c.x, d |-> 1],
         by |-> IF s.sum > 0 THEN [n |-> s.sy, d |-> s.sum] ELSE [n |-> c.y, d |-> 1]]

\* the body of `for (const auto& c : cands)` up to out.push_back(pp)
TopKVisit(A, out, c, nmsRadius, baryRadius) ==
    IF TooClose(out, c, nmsRadius) THEN out
    ELSE Append(out, PicPointOf(A, c, baryRadius))

\* shape of the accumulators handed to topKpicsAvecBary()
TopShape == [w |-> 4, h |-> 2]

\* number of voted cells of those accumulators
TopLit == 3

\* accumulators with at most TopLit voted cells
TopAccus ==
    UNION { { [w |-> TopShape.w, h |-> TopShape.h,
               a |-> [i \in 0..(TopShape.w * TopShape.h - 1) |->
                        IF i \in S THEN f[i] ELSE 0]] :
              f \in [S -> {1, 2, 3}] } :
            S \in { T \in SUBSET (0..(TopShape.w * TopShape.h - 1)) :
                       Cardinality(T) <= TopLit } }

InitTopK ==
    /\ topk \in { [pc |-> "loop", A |-> A, k |-> k, nmsRadius |-> r,
                   baryRadius |-> 1, minVal |-> m,
                   cands |-> Candidates(A, m), out |-> <<>>] :
                  A \in TopAccus, k \in {1, 2, 3}, r \in {0, 1, 2},
                  m \in {0, 1, 2} }
    /\ vote = Idle /\ pair = Idle /\ rtb = Idle /\ det = Idle /\ bary = Idle

\* one iteration of `for (const auto& c : cands)`, with its break
TopKCandidate ==
    /\ topk.pc = "loop"
    /\ \E c \in SortHeads(topk.cands) :
         LET out2 == TopKVisit(topk.A, topk.out, c, topk.nmsRadius,
                               topk.baryRadius)
         IN  topk' = [topk EXCEPT
                        !.cands = @ \ {c},
                        !.out = out2,
                        !.pc = IF Len(out2) > Len(topk.out) /\ Len(out2) >= topk.k
                               THEN "done" ELSE "loop"]
    /\ UNCHANGED <<vote, pair, rtb, det, bary>>

TopKReturn ==
    /\ topk.pc = "loop"
    /\ topk.cands = {}
    /\ topk' = [topk EXCEPT !.pc = "done"]
    /\ UNCHANGED <<vote, pair, rtb, det, bary>>

NextTopK == TopKCandidate \/ TopKReturn

SpecTopK == InitTopK /\ [][NextTopK]_vars

\* C4: no two peaks of the list topKpicsAvecBary builds have raw positions
\* within Euclidean distance r of each other, for a suppression radius r > 0:
\* dx*dx + dy*dy > r*r for every pair.
C4_PeaksApart ==
    topk.pc # "idle" /\ topk.nmsRadius > 0 =>
        \A i, j \in 1..Len(topk.out) :
            i # j =>
              (topk.out[i].x - topk.out[j].x) * (topk.out[i].x - topk.out[j].x)
            + (topk.out[i].y - topk.out[j].y) * (topk.out[i].y - topk.out[j].y)
            > topk.nmsRadius * topk.nmsRadius

\* a returned list of two or more peaks where a stronger candidate than the
\* last peak was suppressed for lying within r of an earlier peak
C4_Witness ==
    /\ topk.pc = "done"
    /\ topk.nmsRadius > 0
    /\ Len(topk.out) >= 2
    /\ \E c \in Candidates(topk.A, topk.minVal) :
         /\ c.v > topk.out[Len(topk.out)].v
         /\ \A j \in 1..Len(topk.out) : <<c.x, c.y>> # <<topk.out[j].x, topk.out[j].y>>
         /\ TooClose(topk.out, c, topk.nmsRadius)

----------------------------------------------------------------------------
(* the iterative extraction of section 4.4 of the specification            *)

\* flat index of the global maximum of A (the first one in scan order)
IterArgMax(A) ==
    CHOOSE i \in DOMAIN A.a :
        /\ \A o \in DOMAIN A.a : A.a[o] <= A.a[i]
        /\ \A o \in DOMAIN A.a : A.a[o] = A.a[i] => i <= o

\* A with every cell within the disk of radius r around (cx, cy) zeroed
ZeroDisk(A, cx, cy, r) ==
    [A EXCEPT !.a = [i \in DOMAIN A.a |->
        IF ((i % A.w) - cx) * ((i % A.w) - cx)
             + ((i \div A.w) - cy) * ((i \div A.w) - cy) <= r * r
        THEN 0 ELSE A.a[i]]]

RECURSIVE IterTopK(_, _, _, _)
\* up to k times: take the global maximum, stop if it is zero or below
\* minVal, record <<x, y, v>>, zero the disk of radius r around it
IterTopK(A, k, r, minVal) ==
    IF k <= 0 THEN <<>>
    ELSE LET i == IterArgMax(A)
         IN  IF A.a[i] = 0 \/ A.a[i] < minVal THEN <<>>
             ELSE <<<<i % A.w, i \div A.w, A.a[i]>>>>
                  \o IterTopK(ZeroDisk(A, i % A.w, i \div A.w, r), k - 1, r, minVal)

\* the cells of A with value >= minVal hold pairwise distinct values
DistinctAbove(A, minVal) ==
    \A i, j \in DOMAIN A.a :
        (i # j /\ A.a[i] >= minVal /\ A.a[j] >= minVal) => A.a[i] # A.a[j]

\* C11: when the cells with value >= minVal are pairwise distinct, k >= 1,
\* nmsRadius >= 0 and minVal >= 1, the list of (raw position, value) that
\* topKpicsAvecBary() returns equals the list of the iterative extraction.
C11_SortFilterIsIterative ==
    (/\ topk.pc = "done"
     /\ topk.k >= 1 /\ topk.nmsRadius >= 0 /\ topk.minVal >= 1
     /\ DistinctAbove(topk.A, topk.minVal)) =>
        [j \in 1..Len(topk.out) |-> <<topk.out[j].x, topk.out[j].y, topk.out[j].v>>]
            = IterTopK(topk.A, topk.k, topk.nmsRadius, topk.minVal)

\* a returned list of two peaks, the second weaker than a candidate that
\* lay in the disk of the first
C11_Witness ==
    /\ topk.pc = "done"
    /\ topk.minVal >= 1 /\ topk.nmsRadius >= 1
    /\ DistinctAbove(topk.A, topk.minVal)
    /\ Len(topk.out) = 2
    /\ \E c \in Candidates(topk.A, topk.minVal) :
         /\ c.v > topk.out[2].v
         /\ c.v < topk.out[1].v
         /\ TooClose(<<topk.out[1]>>, c, topk.nmsRadius)

\* C12: for every accumulator and every minVal in 0..65535, 0 included, no
\* peak of the list topKpicsAvecBary() builds has vote value zero.
C12_NoZeroPeak ==
    topk.pc # "idle" =>
        \A j \in 1..Len(topk.out) : topk.out[j].v > 0

----------------------------------------------------------------------------
(* pair selection: choisirPaireYeux()                                      *)

\* a <= b for two centroid coordinates (rationals n/d, d > 0)
RatLe(a, b) == a.n * b.d <= b.n * a.d

\* b - a
RatSub(b, a) == [n |-> b.n * a.d - a.n * b.d, d |-> b.d * a.d]

\* (int)std::lround(r)
RatRound(r) == LRound(r.n, r.d)

\* (int)std::lround(std::fabs(r))
RatRoundAbs(r) == LRound(Abs(r.n), r.d)

\* `PicPoint og, od;` : a default-constructed PicPoint
NoPic == [x |-> 0, y |-> 0, v |-> 0, bx |-> [n |-> 0, d |-> 1], by |-> [n |-> 0, d |-> 1]]

\* the four `continue` tests of the pair loop without the test on R.by
PairPassesNoRightRow(L, R, faceCyInZone, minDx, maxDx, maxDy) ==
    LET dx == RatRound(RatSub(R.bx, L.bx))
        dy == RatRoundAbs(RatSub(R.by, L.by))
    IN  /\ ~(dx < minDx \/ dx > maxDx)
        /\ ~(dy > maxDy)
        /\ ~(RatRound(L.by) > faceCyInZone)

\* the four `continue` tests of the pair loop: TRUE when the pair (L, R)
\* reaches the score update
PairPasses(L, R, faceCyInZone, minDx, maxDx, maxDy) ==
    LET dx == RatRound(RatSub(R.bx, L.bx))
        dy == RatRoundAbs(RatSub(R.by, L.by))
    IN  /\ ~(dx < minDx \/ dx > maxDx)
        /\ ~(dy > maxDy)
        /\ ~(RatRound(L.by) > faceCyInZone)
        /\ ~(RatRound(R.by) > faceCyInZone)

\* the pair loop body with `oeilGauche = R; oeilDroit = L;`
PairVisitSwapped(acc, p1, p2, faceCyInZone, minDx, maxDx, maxDy) ==
    LET L == IF RatLe(p1.bx, p2.bx) THEN p1 ELSE p2
        R == IF RatLe(p1.bx, p2.bx) THEN p2 ELSE p1
        score == L.v + R.v
    IN  IF ~PairPasses(L, R, faceCyInZone, minDx, maxDx, maxDy) THEN acc
        ELSE IF ~acc.found \/ score > acc.best
             THEN [found |-> TRUE, best |-> score, og |-> R, od |-> L]
             ELSE acc

\* the body of the pair loop for pics[i], pics[j]; acc holds found, best,
\* oeilGauche, oeilDroit
PairVisit(acc, p1, p2, faceCyInZone, minDx, maxDx, maxDy) ==
    LET L == IF RatLe(p1.bx, p2.bx) THEN p1 ELSE p2
        R == IF RatLe(p1.bx, p2.bx) THEN p2 ELSE p1
        score == L.v + R.v
    IN  IF ~PairPasses(L, R, faceCyInZone, minDx, maxDx, maxDy) THEN acc
        ELSE IF ~acc.found \/ score > acc.best
             THEN [found |-> TRUE, best |-> score, og |-> L, od |-> R]
             ELSE acc

RECURSIVE PairLoop(_, _, _, _, _, _, _, _)
\* the loops `for i` / `for j = i + 1` from (i, j) on (1-based)
PairLoop(acc, pics, faceCyInZone, minDx, maxDx, maxDy, i, j) ==
    IF i > Len(pics) THEN acc
    ELSE IF j > Len(pics)
         THEN PairLoop(acc, pics, faceCyInZone, minDx, maxDx, maxDy, i + 1, i + 2)
         ELSE PairLoop(PairVisit(acc, pics[i], pics[j], faceCyInZone,
                                 minDx, maxDx, maxDy),
                       pics, faceCyInZone, minDx, maxDx, maxDy, i, j + 1)

\* bool choisirPaireYeux(pics, faceCxInZone, faceCyInZone, minDx, maxDx,
\*                       maxDy, oeilGauche, oeilDroit): the returned flag
\* and the two output parameters (og, od as the caller passed them)
choisirPaireYeux(pics, faceCxInZone, faceCyInZone, minDx, maxDx, maxDy, og, od) ==
    PairLoop([found |-> FALSE, best |-> 0, og |-> og, od |-> od],
             pics, faceCyInZone, minDx, maxDx, maxDy, 1, 2)

\* longest peak list handed to choisirPaireYeux()
MaxPics == 3

\* eye candidates: refined centroids in half pixels, vote values 1..3
PeakPool ==
    { [x |-> LRound(t[1], 2), y |-> LRound(t[2], 2), v |-> t[3],
       bx |-> [n |-> t[1], d |-> 2], by |-> [n |-> t[2], d |-> 2]] :
      t \in { <<0, 2, 2>>, <<3, 2, 1>>, <<3, 3, 2>>, <<5, 2, 1>>,
              <<5, 5, 3>>, <<8, 1, 2>>, <<4, 4, 1>>, <<0, 3, 3>> } }

PeakLists == UNION { [1..n -> PeakPool] : n \in 0..MaxPics }

InitPair ==
    /\ pair \in { [pc |-> "call", pics |-> ps, faceCxInZone |-> 2,
                   faceCyInZone |-> fcy, minDx |-> b[1], maxDx |-> b[2],
                   maxDy |-> mdy, found |-> FALSE, og |-> NoPic, od |-> NoPic] :
                  ps \in PeakLists, fcy \in {1, 2},
                  b \in { <<1, 2>>, <<2, 3>>, <<0, 4>> }, mdy \in {0, 1} }
    /\ vote = Idle /\ topk = Idle /\ rtb = Idle /\ det = Idle /\ bary = Idle

ChoisirPaire ==
    /\ pair.pc = "call"
    /\ LET r == choisirPaireYeux(pair.pics, pair.faceCxInZone, pair.faceCyInZone,
                                 pair.minDx, pair.maxDx, pair.maxDy,
                                 pair.og, pair.od)
       IN  pair' = [pair EXCEPT !.pc = "done", !.found = r.found,
                                !.og = r.og, !.od = r.od]
    /\ UNCHANGED <<vote, topk, rtb, det, bary>>

SpecPair == InitPair /\ [][ChoisirPaire]_vars

\* eligibility of an unordered pair as the claim words it: rounded
\* horizontal distance in [minDx, maxDx], rounded vertical distance <= maxDy,
\* both rounded centroid rows <= faceCy
EligiblePair(p, q) ==
    /\ RatRoundAbs(RatSub(p.bx, q.bx)) \in pair.minDx..pair.maxDx
    /\ RatRoundAbs(RatSub(p.by, q.by)) <= pair.maxDy
    /\ RatRound(p.by) <= pair.faceCyInZone
    /\ RatRound(q.by) <= pair.faceCyInZone

EligibleIndexPairs ==
    { ij \in (1..Len(pair.pics)) \X (1..Len(pair.pics)) :
        ij[1] < ij[2] /\ EligiblePair(pair.pics[ij[1]], pair.pics[ij[2]]) }

\* C6: choisirPaireYeux returns true exactly when some unordered pair of
\* peaks is eligible; the pair it then outputs is an eligible pair of the
\* list, its summed vote value is the maximum over all eligible pairs, and
\* the left eye's refined x is <= the right eye's.
C6_BestEligiblePair ==
    pair.pc = "done" =>
        /\ pair.found <=> EligibleIndexPairs # {}
        /\ pair.found =>
             /\ \E ij \in EligibleIndexPairs :
                   {pair.og, pair.od} = {pair.pics[ij[1]], pair.pics[ij[2]]}
             /\ EligiblePair(pair.og, pair.od)
             /\ \A ij \in EligibleIndexPairs :
                   pair.pics[ij[1]].v + pair.pics[ij[2]].v <= pair.og.v + pair.od.v
             /\ RatLe(pair.og.bx, pair.od.bx)

\* a call that found a pair among several eligible pairs of different
\* scores while a higher-scoring pair was not eligible
C6_Witness ==
    /\ pair.pc = "done"
    /\ pair.found
    /\ \E ij \in EligibleIndexPairs :
          pair.pics[ij[1]].v + pair.pics[ij[2]].v < pair.og.v + pair.od.v
    /\ \E i, j \in 1..Len(pair.pics) :
          /\ i < j
          /\ ~EligiblePair(pair.pics[i], pair.pics[j])
          /\ pair.pics[i].v + pair.pics[j].v > pair.og.v + pair.od.v

----------------------------------------------------------------------------
(* peak extraction: barycentreLocalAutourMax()                             *)

\* `if (v >= peak) { peak = v; px = x; py = y; }` : the scan state m
\* (peak, px, py) after the cells summarised by r are scanned, r being the
\* scan of those cells alone
ScanThen(m, r) == IF r.peak >= m.peak THEN r ELSE m

RECURSIVE ScanMax(_, _, _)
\* the max scan over the flat indices lo..hi (lo <= hi) in row-major order
ScanMax(A, lo, hi) ==
    IF lo = hi THEN [peak |-> A.a[lo], px |-> lo % A.w, py |-> lo \div A.w]
    ELSE ScanThen(ScanMax(A, lo, (lo + hi) \div 2),
                  ScanMax(A, (lo + hi) \div 2 + 1, hi))

\* what barycentreLocalAutourMax() returns once the scan has left
\* m = (peak, px, py)
BaryResult(A, m, radius) ==
    LET s == BarySums(A, m.px, m.py, radius)
    IN  IF m.peak = 0
        THEN [ok |-> FALSE, bx |-> [n |-> 0, d |-> 1], by |-> [n |-> 0, d |-> 1], peak |-> 0]
        ELSE IF s.sum <= 0
        THEN [ok |-> FALSE, bx |-> [n |-> 0, d |-> 1], by |-> [n |-> 0, d |-> 1], peak |-> m.peak]
        ELSE [ok |-> TRUE, bx |-> [n |-> s.sx, d |-> s.sum],
              by |-> [n |-> s.sy, d |-> s.sum], peak |-> m.peak]

\* PicBary barycentreLocalAutourMax(const AccuImage& A, int radius)
barycentreLocalAutourMax(A, radius) ==
    LET m == IF A.w * A.h = 0 THEN [peak |-> 0, px |-> 0, py |-> 0]
             ELSE ScanThen([peak |-> 0, px |-> 0, py |-> 0],
                           ScanMax(A, 0, A.w * A.h - 1))
    IN  BaryResult(A, m, radius)

\* refinement radii explored
BaryRadii == {0, 1, 2}

InitBary ==
    /\ bary \in { [pc |-> "scan", A |-> A, radius |-> r, i |-> 0,
                   m |-> [peak |-> 0, px |-> 0, py |-> 0],
                   ret |-> [ok |-> FALSE, bx |-> [n |-> 0, d |-> 1],
                            by |-> [n |-> 0, d |-> 1], peak |-> 0]] :
                  A \in TopAccus, r \in BaryRadii }
    /\ vote = Idle /\ topk = Idle /\ pair = Idle /\ rtb = Idle /\ det = Idle

\* one iteration of the max scan, at flat index bary.i
BaryScanCell ==
    /\ bary.pc = "scan"
    /\ bary.i < bary.A.w * bary.A.h
    /\ bary' = [bary EXCEPT
                  !.m = ScanThen(@, [peak |-> bary.A.a[bary.i],
                                     px |-> bary.i % bary.A.w,
                                     py |-> bary.i \div bary.A.w]),
                  !.i = @ + 1]
    /\ UNCHANGED <<vote, topk, pair, rtb, det>>

\* after the scan: no peak, or the centroid around (px, py)
BaryReturn ==
    /\ bary.pc = "scan"
    /\ bary.i >= bary.A.w * bary.A.h
    /\ bary' = [bary EXCEPT !.pc = "done",
                            !.ret = BaryResult(bary.A, bary.m, bary.radius)]
    /\ UNCHANGED <<vote, topk, pair, rtb, det>>

NextBary == BaryScanCell \/ BaryReturn

SpecBary == InitBary /\ [][NextBary]_vars

\* the largest cell value of the accumulator scanned
BaryMaxValue == bary.A.a[IterArgMax(bary.A)]

\* C13: when the maximum is positive, the raw argmax is the first cell in
\* row-major scan order that holds the maximum and the refined centroid is
\* computed around that cell; when the maximum is zero, ok is false.
C13_FirstMaxInScanOrder ==
    bary.pc = "done" =>
        IF BaryMaxValue > 0
        THEN LET first == IterArgMax(bary.A)
                 s     == BarySums(bary.A, first % bary.A.w, first \div bary.A.w,
                                   bary.radius)
             IN  /\ bary.m.px = first % bary.A.w
                 /\ bary.m.py = first \div bary.A.w
                 /\ bary.ret.ok
                 /\ bary.ret.peak = BaryMaxValue
                 /\ bary.ret.bx.n * s.sum = s.sx * bary.ret.bx.d
                 /\ bary.ret.by.n * s.sum = s.sy * bary.ret.by.d
        ELSE ~bary.ret.ok

----------------------------------------------------------------------------
(* topKpicsAvecBary() as one call, for a given outcome of std::sort        *)

\* the orders of equal-valued candidates explored for a whole call: the
\* order of the scan (what a stable sort leaves) and its reverse
TieOrders == {"scan", "reverse"}

\* the cell of A at flat index i as a candidate
CandAt(A, i) == [x |-> i % A.w, y |-> i \div A.w, v |-> A.a[i]]

RECURSIVE SortHeadIdx(_, _, _, _, _)
\* flat index of the first candidate of the sorted vector among the cells
\* lo..hi still in cands (-1 when none): the largest v, equal values in
\* scan order or in reverse scan order
SortHeadIdx(A, cands, tie, lo, hi) ==
    IF lo > hi THEN -1
    ELSE IF lo = hi THEN (IF CandAt(A, lo) \in cands THEN lo ELSE -1)
    ELSE LET l == SortHeadIdx(A, cands, tie, lo, (lo + hi) \div 2)
             r == SortHeadIdx(A, cands, tie, (lo + hi) \div 2 + 1, hi)
         IN  IF l = -1 THEN r
             ELSE IF r = -1 THEN l
             ELSE IF A.a[l] > A.a[r] THEN l
             ELSE IF A.a[r] > A.a[l] THEN r
             ELSE IF tie = "scan" THEN l ELSE r

\* the next candidate of the sorted vector under tie order `tie`
SortHead(A, cands, tie) ==
    CandAt(A, SortHeadIdx(A, cands, tie, 0, A.w * A.h - 1))

RECURSIVE TopKLoop(_, _, _, _, _, _, _)
\* `for (const auto& c : cands)` over the candidates not yet visited
TopKLoop(A, k, nmsRadius, baryRadius, cands, out, tie) ==
    IF cands = {} THEN out
    ELSE LET c    == SortHead(A, cands, tie)
             out2 == TopKVisit(A, out, c, nmsRadius, baryRadius)
         IN  IF Len(out2) > Len(out) /\ Len(out2) >= k THEN out2
             ELSE TopKLoop(A, k, nmsRadius, baryRadius, cands \ {c}, out2, tie)

\* std::vector<PicPoint> topKpicsAvecBary(A, k, nmsRadius, baryRadius, minVal)
topKpicsAvecBary(A, k, nmsRadius, baryRadius, minVal, tie) ==
    TopKLoop(A, k, nmsRadius, baryRadius, Candidates(A, minVal), <<>>, tie)

----------------------------------------------------------------------------
(* detectfaceeyes()                                                        *)

\* `faceeyes out;` : the result record as default-constructed
DefaultOut ==
    [faceOk |-> FALSE, faceX |-> 0, faceY |-> 0, faceRx |-> 0, faceRy |-> 0,
     eyeRoiX |-> 0, eyeRoiY |-> 0, eyeRoiW |-> 0, eyeRoiH |-> 0,
     eyesOk |-> FALSE, ex1 |-> 0, ey1 |-> 0, ex2 |-> 0, ey2 |-> 0, eyeR |-> 0]

\* the accumulator of one face model: makeAccu + voter
FaceAccu(img, grads, fm, seuilFace) ==
    voter(makeAccu(img.w, img.h), img, grads, fm.lut, seuilFace)

\* `PicBary b = barycentreLocalAutourMax(A, 6);` for one face model
FacePeak(img, grads, fm, seuilFace) ==
    barycentreLocalAutourMax(FaceAccu(img, grads, fm, seuilFace), 6)

\* `if (b.ok && b.peak >= bestFacePeak) {...}`; best holds bestFacePeak,
\* bestFaceX, bestFaceY, bestRx, bestRy
FaceModelVisit(best, fm, b) ==
    IF b.ok /\ b.peak >= best.bestFacePeak
    THEN [bestFacePeak |-> b.peak,
          bestFaceX |-> RatRound(b.bx), bestFaceY |-> RatRound(b.by),
          bestRx |-> fm.rx, bestRy |-> fm.ry]
    ELSE best

\* where detectfaceeyes() goes after the face loop when the rejected face
\* does not return
AfterFaceNoReturn(bestFacePeak, faceMinScore) == "roi"

\* `if (bestFacePeak < faceMinScore) { out.faceOk = false; return out; }`
AfterFace(bestFacePeak, faceMinScore) ==
    IF bestFacePeak < faceMinScore THEN "done" ELSE "roi"

\* the eye ROI corners zx0, zx1, zy0, zy1
EyeRoi(bestFaceX, bestFaceY, bestRx, bestRy, w, h) ==
    [zx0 |-> clampInt(bestFaceX - LRound(12 * bestRx, 10), 0, w - 1),
     zx1 |-> clampInt(bestFaceX + LRound(12 * bestRx, 10), 0, w - 1),
     zy0 |-> clampInt(bestFaceY - LRound(11 * bestRy, 10), 0, h - 1),
     zy1 |-> clampInt(bestFaceY - LRound(15 * bestRy, 100), 0, h - 1)]

\* `if (zx1 <= zx0 || zy1 <= zy0)` : the ROI is not searched
RoiRejected(z) == z.zx1 <= z.zx0 \/ z.zy1 <= z.zy0

\* the sub-image zoneYeux copied out of img
SubImage(img, z) ==
    LET zw == z.zx1 - z.zx0 + 1
        zh == z.zy1 - z.zy0 + 1
    IN  [w |-> zw, h |-> zh,
         p |-> [i \in 0..(zw * zh - 1) |->
                  img.p[Idx(img.w, z.zy0 + (i \div zw), z.zx0 + (i % zw))]]]

\* the largest v of a peak list (`localPeak`)
LocalPeak(pics) ==
    IF pics = <<>> THEN 0
    ELSE LET j == CHOOSE i \in 1..Len(pics) :
                    \A o \in 1..Len(pics) : pics[o].v <= pics[i].v
         IN  pics[j].v

\* the body of `for (const auto& em : eyeModels)` once pics is known; best
\* holds bestEyePeak, bestR, bestPics
EyeModelVisit(best, em, pics) ==
    IF pics = <<>> THEN best
    ELSE IF LocalPeak(pics) >= best.bestEyePeak
         THEN [bestEyePeak |-> LocalPeak(pics), bestR |-> em.r, bestPics |-> pics]
         ELSE best

\* minDx, maxDx, maxDy of the pair selection, from the face scale
PairBounds(bestRx, bestRy) ==
    LET minDx == Max2(10, LRound(55 * bestRx, 100))
    IN  [minDx |-> minDx,
         maxDx |-> Max2(minDx + 10, LRound(160 * bestRx, 100)),
         maxDy |-> Max2(10, LRound(30 * bestRy, 100))]

\* image size of a detection call
DetW == 14
DetH == 10

\* positions <<x, y>> a lit pixel of the input image may take
DotPool == { <<2, 3>>, <<12, 3>>, <<12, 5>>, <<7, 8>>, <<5, 1>> }

DetImages ==
    { [w |-> DetW, h |-> DetH,
       p |-> [i \in 0..(DetW * DetH - 1) |->
                IF <<i % DetW, i \div DetW>> \in S THEN PixHi ELSE 0]] :
      S \in { T \in SUBSET DotPool : Cardinality(T) <= MaxLit } }

\* face models: the pixel left of a lit pixel (bin 0) and the pixel right
\* of one (bin 180) vote for a centre below and between them
FaceWide ==
    [rx |-> 5, ry |-> 7,
     lut |-> [EmptyRTable EXCEPT ![0] = <<<<6, 5>>>>, ![180] = <<<<-6, 5>>>>]]

FaceWide2 ==
    [rx |-> 6, ry |-> 6,
     lut |-> [EmptyRTable EXCEPT ![0] = <<<<6, 5>>>>, ![180] = <<<<-6, 5>>>>]]

FaceSmall ==
    [rx |-> 1, ry |-> 1,
     lut |-> [EmptyRTable EXCEPT ![0] = <<<<0, 0>>>>, ![90] = <<<<0, 1>>, <<0, 1>>>>]]

FaceModelLists ==
    { <<>>, <<FaceWide>>, <<FaceSmall>>, <<FaceWide, FaceSmall>>,
      <<FaceSmall, FaceWide>>, <<FaceWide, FaceWide2>> }

\* eye models: the four neighbours of a lit pixel vote for it
EyeOne ==
    [r |-> 1,
     lut |-> [EmptyRTable EXCEPT ![0] = <<<<1, 0>>>>, ![180] = <<<<-1, 0>>>>,
                                 ![90] = <<<<0, 1>>>>, ![270] = <<<<0, -1>>>>]]

EyeTwo ==
    [r |-> 2,
     lut |-> [EmptyRTable EXCEPT ![0] = <<<<1, 0>>>>, ![180] = <<<<-1, 0>>>>]]

EyeModelLists == { <<>>, <<EyeOne>>, <<EyeTwo, EyeOne>> }

\* <<seuilFace, seuilEye, faceMinScore, eyeMinPeak>>: the defaults of main()
\* and values --face-edge, --eye-edge, --face-min-score, --eye-min-peak accept
DetThresholds ==
    { <<140, 75, 14, 5>>, <<140, 75, 2, 1>>, <<140, 75, 0, 1>>, <<140, 75, 2, 0>>,
      <<0, 75, 2, 1>>, <<0, 75, 0, 5>>, <<140, 0, 2, 1>>, <<0, 0, 0, 0>> }

InitDetect ==
    /\ det \in { [pc |-> "start", img |-> img, faceModels |-> fms,
                  eyeModels |-> ems, seuilFace |-> t[1], seuilEye |-> t[2],
                  faceMinScore |-> t[3], eyeMinPeak |-> t[4],
                  dbgGrads |-> makeGris(0, 0, 0), fi |-> 1, facePeaks |-> <<>>,
                  roiDerived |-> FALSE, pairCalls |-> 0, ret |-> "none",
                  best |-> [bestFacePeak |-> 0, bestFaceX |-> 0, bestFaceY |-> 0,
                            bestRx |-> 0, bestRy |-> 0],
                  z |-> [zx0 |-> 0, zx1 |-> 0, zy0 |-> 0, zy1 |-> 0],
                  zoneYeux |-> makeGris(0, 0, 0), ei |-> 1, eyeVotes |-> 0,
                  bestEye |-> [bestEyePeak |-> 0, bestR |-> 0, bestPics |-> <<>>],
                  out |-> DefaultOut] :
                 img \in DetImages, fms \in FaceModelLists,
                 ems \in EyeModelLists, t \in DetThresholds }
    /\ vote = Idle /\ topk = Idle /\ pair = Idle /\ rtb = Idle /\ bary = Idle

\* `out.dbgGrads = sobel(img);`
DetSobel ==
    /\ det.pc = "start"
    /\ det' = [det EXCEPT !.pc = "face", !.dbgGrads = sobel(det.img)]
    /\ UNCHANGED <<vote, topk, pair, rtb, bary>>

\* one iteration of the face-model loop
DetFaceModel ==
    /\ det.pc = "face"
    /\ det.fi <= Len(det.faceModels)
    /\ LET fm == det.faceModels[det.fi]
           b  == FacePeak(det.img, det.dbgGrads, fm, det.seuilFace)
       IN  det' = [det EXCEPT
                     !.best = FaceModelVisit(det.best, fm, b),
                     !.facePeaks = Append(@, b),
                     !.fi = @ + 1]
    /\ UNCHANGED <<vote, topk, pair, rtb, bary>>

\* after the face loop: reject the face and return, or accept it
DetFaceDecide ==
    /\ det.pc = "face"
    /\ det.fi > Len(det.faceModels)
    /\ det' = [det EXCEPT
                 !.pc = AfterFace(det.best.bestFacePeak, det.faceMinScore),
                 !.ret = IF AfterFace(det.best.bestFacePeak, det.faceMinScore) = "done"
                         THEN "result" ELSE @,
                 !.out = IF det.best.bestFacePeak < det.faceMinScore
                         THEN [@ EXCEPT !.faceOk = FALSE]
                         ELSE [@ EXCEPT !.faceOk = TRUE,
                                        !.faceX = det.best.bestFaceX,
                                        !.faceY = det.best.bestFaceY,
                                        !.faceRx = det.best.bestRx,
                                        !.faceRy = det.best.bestRy]]
    /\ UNCHANGED <<vote, topk, pair, rtb, bary>>

\* derive the eye ROI; return when it is rejected, else cut zoneYeux
DetRoi ==
    /\ det.pc = "roi"
    /\ LET z == EyeRoi(det.best.bestFaceX, det.best.bestFaceY,
                       det.best.bestRx, det.best.bestRy, det.img.w, det.img.h)
       IN  IF RoiRejected(z)
           THEN det' = [det EXCEPT !.pc = "done", !.ret = "result", !.z = z,
                                   !.roiDerived = TRUE, !.out.eyesOk = FALSE]
           ELSE det' = [det EXCEPT
                          !.pc = "eyes", !.z = z, !.roiDerived = TRUE,
                          !.zoneYeux = SubImage(det.img, z),
                          !.out.eyeRoiX = z.zx0, !.out.eyeRoiY = z.zy0,
                          !.out.eyeRoiW = z.zx1 - z.zx0 + 1,
                          !.out.eyeRoiH = z.zy1 - z.zy0 + 1]
    /\ UNCHANGED <<vote, topk, pair, rtb, bary>>

\* one iteration of the eye-model loop: vote pass over zoneYeux, top-K
DetEyeModel ==
    /\ det.pc = "eyes"
    /\ det.ei <= Len(det.eyeModels)
    /\ \E tie \in TieOrders :
         LET em   == det.eyeModels[det.ei]
             A    == voter(makeAccu(det.zoneYeux.w, det.zoneYeux.h), det.zoneYeux,
                           sobel(det.zoneYeux), em.lut, det.seuilEye)
             pics == topKpicsAvecBary(A, 6, em.r * 2, 6, det.eyeMinPeak, tie)
         IN  det' = [det EXCEPT
                       !.bestEye = EyeModelVisit(det.bestEye, em, pics),
                       !.eyeVotes = @ + 1,
                       !.ei = @ + 1]
    /\ UNCHANGED <<vote, topk, pair, rtb, bary>>

\* after the eye loop: pair selection and the final result
DetPair ==
    /\ det.pc = "eyes"
    /\ det.ei > Len(det.eyeModels)
    /\ IF det.bestEye.bestPics = <<>>
       THEN det' = [det EXCEPT !.pc = "done", !.ret = "result",
                               !.out.eyesOk = FALSE]
       ELSE LET b == PairBounds(det.best.bestRx, det.best.bestRy)
                r == choisirPaireYeux(det.bestEye.bestPics,
                                      det.best.bestFaceX - det.z.zx0,
                                      det.best.bestFaceY - det.z.zy0,
                                      b.minDx, b.maxDx, b.maxDy, NoPic, NoPic)
            IN  IF ~r.found
                THEN det' = [det EXCEPT !.pc = "done", !.ret = "result",
                                        !.pairCalls = @ + 1,
                                        !.out.eyesOk = FALSE]
                ELSE det' = [det EXCEPT
                               !.pc = "done", !.ret = "result",
                               !.pairCalls = @ + 1,
                               !.out.eyesOk = TRUE,
                               !.out.eyeR = det.bestEye.bestR,
                               !.out.ex1 = det.z.zx0 + RatRound(r.og.bx),
                               !.out.ey1 = det.z.zy0 + RatRound(r.og.by),
                               !.out.ex2 = det.z.zx0 + RatRound(r.od.bx),
                               !.out.ey2 = det.z.zy0 + RatRound(r.od.by)]
    /\ UNCHANGED <<vote, topk, pair, rtb, bary>>

NextDetect ==
    DetSobel \/ DetFaceModel \/ DetFaceDecide \/ DetRoi \/ DetEyeModel \/ DetPair

Spec == InitDetect /\ [][NextDetect]_vars

----------------------------------------------------------------------------
(* properties of detectfaceeyes()                                          *)

\* position of the call in the stage order
StageRank(pc) ==
    CASE pc = "start" -> 0 [] pc = "face" -> 1 [] pc = "roi" -> 2
      [] pc = "eyes" -> 3 [] pc = "done" -> 4

\* the face stage has failed: no eye ROI, no eye vote pass, no pair
\* selection, eyesOk false; and eyesOk implies faceOk
FaceGatesEyes ==
    /\ (det.pc = "done" /\ ~det.out.faceOk) =>
          /\ ~det.roiDerived
          /\ det.out.eyeRoiW = 0 /\ det.out.eyeRoiH = 0
          /\ det.eyeVotes = 0
          /\ det.pairCalls = 0
          /\ ~det.out.eyesOk
    /\ (det.roiDerived \/ det.eyeVotes > 0 \/ det.pairCalls > 0) => det.out.faceOk
    /\ det.out.eyesOk => det.out.faceOk

\* C2: the stages run face first, then eyes, never backwards; when the
\* face stage fails no eye ROI is derived, no eye vote pass and no pair
\* selection run and eyesOk is false, so eyesOk implies faceOk.
C2_FaceThenEyes ==
    /\ []FaceGatesEyes
    /\ [][StageRank(det'.pc) >= StageRank(det.pc)]_vars

\* a call with face models whose face stage failed and returned
C2_Witness ==
    /\ det.pc = "done"
    /\ Len(det.faceModels) > 0
    /\ \E i \in 1..Len(det.facePeaks) : det.facePeaks[i].peak > 0
    /\ ~det.out.faceOk

\* the gradient magnitude is 0 at every pixel of the input image
UniformImage ==
    /\ det.pc # "start"
    /\ \A i \in DOMAIN det.dbgGrads.mag : det.dbgGrads.mag[i] = 0

\* C3: on a uniform image, under every accepted threshold configuration,
\* the call returns faceOk = false and the eye stage is never entered.
C3_UniformImageNoFace ==
    UniformImage =>
        /\ det.pc \notin {"roi", "eyes"}
        /\ det.eyeVotes = 0
        /\ det.pc = "done" => ~det.out.faceOk

\* C5: the eye ROI is normalized and inside the image, and the eye vote
\* pass runs only on a ROI at least 8 pixels wide and 8 pixels high.
C5_EyeRoiAtLeast8 ==
    /\ det.roiDerived =>
          /\ 0 <= det.z.zx0 /\ det.z.zx0 <= det.z.zx1 /\ det.z.zx1 <= det.img.w - 1
          /\ 0 <= det.z.zy0 /\ det.z.zy0 <= det.z.zy1 /\ det.z.zy1 <= det.img.h - 1
    /\ (det.pc = "eyes" \/ det.eyeVotes > 0) =>
          /\ det.z.zx1 - det.z.zx0 + 1 >= 8
          /\ det.z.zy1 - det.z.zy0 + 1 >= 8

\* C7: a call with an empty face-model list or an empty eye-model list
\* never ends by returning a detection result.
C7_EmptyModelListRejected ==
    (det.faceModels = <<>> \/ det.eyeModels = <<>>) => det.ret # "result"

\* the largest accumulator peak over the face models visited
HighestFacePeak ==
    LET i == CHOOSE i \in 1..Len(det.facePeaks) :
               \A o \in 1..Len(det.facePeaks) :
                 det.facePeaks[o].peak <= det.facePeaks[i].peak
    IN  det.facePeaks[i].peak

\* C10: after the face stage, faceOk holds exactly when the highest peak
\* over the face models reaches faceMinScore, and then the reported scale
\* is that of a model of the list whose peak is the highest and the
\* reported centre is the rounded refined peak of that model.
C10_BestFaceModel ==
    (StageRank(det.pc) >= 2 /\ Len(det.faceModels) > 0) =>
        /\ det.out.faceOk <=> (HighestFacePeak >= det.faceMinScore)
        /\ det.out.faceOk =>
              \E i \in 1..Len(det.faceModels) :
                /\ det.facePeaks[i].peak = HighestFacePeak
                /\ det.out.faceRx = det.faceModels[i].rx
                /\ det.out.faceRy = det.faceModels[i].ry
                /\ det.out.faceX = RatRound(det.facePeaks[i].bx)
                /\ det.out.faceY = RatRound(det.facePeaks[i].by)

\* C14: in a result returned for an image of width and height >= 1 and
\* non-empty model lists, a found face centre lies inside the image, and
\* found eye centres lie inside the reported eye ROI, not below the face
\* centre row, the left one strictly left of the right one.
C14_ResultInsideBounds ==
    (/\ det.pc = "done"
     /\ det.img.w >= 1 /\ det.img.h >= 1
     /\ Len(det.faceModels) > 0 /\ Len(det.eyeModels) > 0) =>
        LET o == det.out
        IN  /\ o.faceOk =>
                  /\ 0 <= o.faceX /\ o.faceX <= det.img.w - 1
                  /\ 0 <= o.faceY /\ o.faceY <= det.img.h - 1
            /\ o.eyesOk =>
                  /\ \A ex \in {o.ex1, o.ex2} :
                        o.eyeRoiX <= ex /\ ex <= o.eyeRoiX + o.eyeRoiW - 1
                  /\ \A ey \in {o.ey1, o.ey2} :
                        o.eyeRoiY <= ey /\ ey <= o.eyeRoiY + o.eyeRoiH - 1
                  /\ 0 <= o.eyeRoiX /\ o.eyeRoiX + o.eyeRoiW <= det.img.w
                  /\ 0 <= o.eyeRoiY /\ o.eyeRoiY + o.eyeRoiH <= det.img.h
                  /\ o.ey1 <= o.faceY /\ o.ey2 <= o.faceY
                  /\ o.ex1 < o.ex2

\* a returned result with a face and a pair of eyes
C14_Witness ==
    /\ det.pc = "done"
    /\ Len(det.faceModels) > 0 /\ Len(det.eyeModels) > 0
    /\ det.out.faceOk /\ det.out.eyesOk

====
